---- MODULE Spec2Model ----
(***************************************************************************)
(* State-machine model of the behavioural-timeline simulation engine:      *)
(* simulation/person.py (Person) and simulation/apartment.py (Apartment).  *)
(* Arrays are functions over 0..n-1, so indices are the Python indices.    *)
(***************************************************************************)
EXTENDS Integers, Sequences, FiniteSets, TLC

\* ------------------------------------------------------------------ bounds
\* Upper ends of the per-day count ranges and duration ranges of the persons.
MaxPerDay == 2
MaxDuration == 3
\* A person computes a fresh timeline only while its stream position is below this.
MaxDraws == 10
\* Upper end of the Apartment's motion-duration range.
MaxMotionDuration == 3
\* Apartment.generate() starts only while the global stream position is below this.
MaxNpDraws == 2
\* Apartments constructed one after the other in the specification that constructs them.
MaxApartments == 2
\* One person's motion scan is followed only while it has recorded fewer bursts.
MaxBursts == 5

\* ------------------------------------------------------------- basic values
None == [kind |-> "None"]
Some(v) == [kind |-> "Some", val |-> v]

MinOf(a, b) == IF a <= b THEN a ELSE b
MaxOfSet(S) == CHOOSE x \in S : \A y \in S : y <= x

\* A Python list/tuple literal (1-based tuple here) as a 0-based array.
Arr(t) == [i \in 0..(Len(t) - 1) |-> t[i + 1]]
ALen(a) == Cardinality(DOMAIN a)
Zeros(n) == [i \in 0..(n - 1) |-> 0]

\* ------------------------------------------------------------ timestamp axes
\* A timestamp is (date, hour); date is a day number with date % 7 the weekday
\* (0 = Monday), so date 4 is a Friday and date 5 a Saturday.
TS(d, h) == [date |-> d, hour |-> h]
AxisEmpty == Arr(<< >>)
AxisDay == Arr(<< TS(4, 6), TS(4, 12), TS(4, 18) >>)
AxisTwoDays == Arr(<< TS(4, 20), TS(4, 23), TS(5, 2), TS(5, 10) >>)
Axes == {AxisEmpty, AxisDay, AxisTwoDays}

\* extract_time_features: the fields the Person reads.
extract_time_features(axis) ==
    [hours   |-> [i \in DOMAIN axis |-> axis[i].hour],
     weekday |-> [i \in DOMAIN axis |-> axis[i].date % 7],
     dates   |-> [i \in DOMAIN axis |-> axis[i].date]]

\* ------------------------------------------------------------------ persons
Persons == {"p1", "p2"}

\* Constructor arguments of persons (create_persons: Alice and Bob), with the
\* hours kept and the ranges scaled to the short axes.
AliceConfig ==
    [outside_hours_weekdays |-> << <<8, 17>> >>,
     outside_hours_weekend  |-> << <<9, 12>>, <<16, 22>> >>,
     sleep_hours            |-> <<23, 6>>,
     window_open_per_day    |-> <<1, MaxPerDay>>,
     window_open_duration   |-> <<1, MaxDuration>>,
     door_open_per_day      |-> <<1, MaxPerDay>>,
     door_open_duration     |-> <<1, MaxDuration>>,
     room_per_day           |-> <<1, MaxPerDay>>,
     room_duration          |-> <<1, MaxDuration>>]
BobConfig ==
    [outside_hours_weekdays |-> << <<7, 21>> >>,
     outside_hours_weekend  |-> << <<9, 12>>, <<13, 20>> >>,
     sleep_hours            |-> <<22, 6>>,
     window_open_per_day    |-> <<0, 1>>,
     window_open_duration   |-> <<1, 2>>,
     door_open_per_day      |-> <<1, 1>>,
     door_open_duration     |-> <<1, 2>>,
     room_per_day           |-> <<1, 1>>,
     room_duration          |-> <<2, 2>>]
\* Alice with exactly one event of each kind per day.
AliceOneEvent ==
    [AliceConfig EXCEPT !.window_open_per_day = <<1, 1>>,
                        !.door_open_per_day = <<1, 1>>,
                        !.room_per_day = <<1, 1>>]

\* Alice with exactly one event of each kind per day, each one instant long.
AliceShortEvents ==
    [AliceOneEvent EXCEPT !.window_open_duration = <<1, 1>>,
                          !.door_open_duration = <<1, 1>>,
                          !.room_duration = <<1, 1>>]

\* Alice with exactly one event of each kind per day, each of the longest duration.
AliceLongEvents ==
    [AliceOneEvent EXCEPT !.window_open_duration = <<MaxDuration, MaxDuration>>,
                          !.door_open_duration = <<MaxDuration, MaxDuration>>,
                          !.room_duration = <<MaxDuration, MaxDuration>>]

VARIABLES
    config,       \* the behavioural parameters each Person was constructed with
    timestamps,   \* Person.timestamps: None or Some(axis)
    cache,        \* Person._timeline_cache: None or Some(five arrays)
    rngPos,       \* draws consumed so far from Person.rng
    stream,       \* history: the values Person.rng has yielded so far, in order, for a
                  \* person whose draws are recorded (Some); None when they are not
    ret,          \* the last call: operation, receiver, and what it returned or raised
    genCalls,     \* history: generate() calls that returned since the last set_timeline (0, 1, 2 = more)
    lastGen,      \* history: what the last of those generate() calls returned, None when there is none
    apt,          \* the Apartment object: None before construction, else Some(its fields)
    scan,         \* the position of a running Apartment.generate(), None when none runs
    npRandom,     \* the process-wide numpy random state: last seed given and draws since
    npStream,     \* history: per seed, the calls made on the global stream seeded with it
                  \* and the values they returned, by position; None when not recorded
    firstRuns     \* history: per Apartment constructed (in order, when recorded), its
                  \* arguments and the result of its first generate()

vars == <<config, timestamps, cache, rngPos, stream, ret, genCalls, lastGen, apt, scan, npRandom,
          npStream, firstRuns>>
personVars == <<config, timestamps, cache, rngPos, stream, genCalls, lastGen>>
aptVars == <<apt, scan, npRandom, npStream, firstRuns>>

\* ------------------------------------------------------- Person: pure parts
\* Person._is_outside
IsOutside(cfg, hour, weekday) ==
    LET hours_list == IF weekday < 5 THEN cfg.outside_hours_weekdays
                      ELSE cfg.outside_hours_weekend
    IN \E k \in DOMAIN hours_list : hours_list[k][1] <= hour /\ hour < hours_list[k][2]

\* Person._generate_inside
GenerateInside(cfg, tf) ==
    [i \in DOMAIN tf.hours |-> IF IsOutside(cfg, tf.hours[i], tf.weekday[i]) THEN 0 ELSE 1]

\* Person._generate_sleeping
GenerateSleeping(cfg, tf) ==
    LET start == cfg.sleep_hours[1]
        end == cfg.sleep_hours[2]
    IN [i \in DOMAIN tf.hours |->
          IF (IF start < end THEN start <= tf.hours[i] /\ tf.hours[i] < end
              ELSE tf.hours[i] >= start \/ tf.hours[i] < end)
          THEN 1 ELSE 0]

\* Person._get_day_indices: the index set of every day, days in increasing order.
DayIndicesOf(tf, day) == {i \in DOMAIN tf.dates : tf.dates[i] = day}

RECURSIVE SortedDays(_)
SortedDays(S) ==
    IF S = {} THEN << >>
    ELSE LET m == CHOOSE x \in S : \A y \in S : x <= y
         IN <<m>> \o SortedDays(S \ {m})

GetDayIndices(tf) ==
    LET days == SortedDays({tf.dates[i] : i \in DOMAIN tf.dates})
    IN [k \in DOMAIN days |-> DayIndicesOf(tf, days[k])]

\* Mutant of ValidIndices: with no valid index the whole day is offered instead.
ValidIndicesOrDay(day_indices, inside, sleeping) ==
    IF \E i \in day_indices : inside[i] = 1 /\ sleeping[i] = 0
    THEN {i \in day_indices : inside[i] = 1 /\ sleeping[i] = 0}
    ELSE day_indices

\* valid = [i for i in day_indices if inside[i] and not sleeping[i]]
ValidIndices(day_indices, inside, sleeping) ==
    {i \in day_indices : inside[i] = 1 /\ sleeping[i] = 0}

\* ------------------------------------------------- Person: sampled events
\* Mutant of Room1Fill: the fill does not test the index.
Room1FillUnconditional(arr, inside, sleeping, start_idx, end_idx, n) ==
    [i \in DOMAIN arr |-> IF start_idx <= i /\ i < end_idx /\ i < n THEN 1 ELSE arr[i]]

\* _generate_room1, the fill of one event: every index of [start_idx, end_idx)
\* that is inside and awake is set; an invalid index does not stop the fill.
Room1Fill(arr, inside, sleeping, start_idx, end_idx, n) ==
    [i \in DOMAIN arr |->
        IF start_idx <= i /\ i < end_idx /\ i < n /\ inside[i] = 1 /\ sleeping[i] = 0
        THEN 1 ELSE arr[i]]

\* Mutant of WindowFill: the fill does not stop at an invalid index.
WindowFillNoBreak(arr, inside, sleeping, start_idx, end_idx, n) ==
    [i \in DOMAIN arr |-> IF start_idx <= i /\ i < end_idx THEN 1 ELSE arr[i]]

\* Mutant of WindowFill: an invalid index is skipped and the fill goes on, as in
\* _generate_room1.
WindowFillSkipInvalid(arr, inside, sleeping, start_idx, end_idx, n) ==
    [i \in DOMAIN arr |->
        IF start_idx <= i /\ i < end_idx /\ inside[i] = 1 /\ sleeping[i] = 0
        THEN 1 ELSE arr[i]]

\* _generate_window_state, the fill of one event: it breaks at the first index
\* of [start_idx, end_idx) that is outside or sleeping.
WindowFill(arr, inside, sleeping, start_idx, end_idx, n) ==
    [i \in DOMAIN arr |->
        IF /\ start_idx <= i /\ i < end_idx
           /\ \A j \in start_idx..i : inside[j] = 1 /\ sleeping[j] = 0
        THEN 1 ELSE arr[i]]

\* _generate_door_state, the fill of one random event: unconditional.
DoorFill(arr, inside, sleeping, start_idx, end_idx, n) ==
    [i \in DOMAIN arr |->
        IF start_idx <= i /\ i < end_idx /\ i < n THEN 1 ELSE arr[i]]

\* Mutant of DoorTransitions: the mark lands one index early.
DoorTransitionsShifted(inside) ==
    [i \in DOMAIN inside |->
        IF (i + 1) \in DOMAIN inside /\ inside[i + 1] # inside[i] THEN 1 ELSE 0]

\* door_state[1:] = (inside[1:] != inside[:-1]).astype(int)
DoorTransitions(inside) ==
    [i \in DOMAIN inside |-> IF i > 0 /\ inside[i] # inside[i - 1] THEN 1 ELSE 0]

FillEvent(kind, arr, inside, sleeping, start_idx, end_idx, n) ==
    CASE kind = "room"   -> Room1Fill(arr, inside, sleeping, start_idx, end_idx, n)
      [] kind = "window" -> WindowFill(arr, inside, sleeping, start_idx, end_idx, n)
      [] kind = "door"   -> DoorFill(arr, inside, sleeping, start_idx, end_idx, n)

PerDayRange(cfg, kind) ==
    CASE kind = "room"   -> cfg.room_per_day
      [] kind = "window" -> cfg.window_open_per_day
      [] kind = "door"   -> cfg.door_open_per_day

DurationRange(cfg, kind) ==
    CASE kind = "room"   -> cfg.room_duration
      [] kind = "window" -> cfg.window_open_duration
      [] kind = "door"   -> cfg.door_open_duration

\* Mutant of EventEnd: the event is not cut at the end of its day.
EventEndPastDay(start_idx, duration, day_indices) == start_idx + duration

\* "min(start_idx + duration, day_indices[-1] + 1)": an event ends with its day.
EventEnd(start_idx, duration, day_indices) ==
    MinOf(start_idx + duration, MaxOfSet(day_indices) + 1)

\* A sampling state: the array so far, the draws taken from self.rng, whether
\* rng.integers raised (low >= high), and, when rec is set, the values drawn in
\* order.  The operators below return the set of states the random stream can
\* produce.
Drawn(st, values) == IF st.rec THEN st.trace \o values ELSE st.trace

\* The "for _ in range(n)" loop of one day: each event with a non-empty valid
\* set draws a start index (rng.choice) and a duration (rng.integers).
RECURSIVE SampleEvents(_, _, _, _, _, _, _)
SampleEvents(kind, cfg, n_events, day_indices, inside, sleeping, st) ==
    IF n_events <= 0 \/ st.err THEN {st}
    ELSE LET valid == ValidIndices(day_indices, inside, sleeping)
             dur == DurationRange(cfg, kind)
         IN IF valid = {}
            THEN SampleEvents(kind, cfg, n_events - 1, day_indices, inside, sleeping, st)
            ELSE IF dur[1] > dur[2]
            THEN {[st EXCEPT !.draws = @ + 1, !.err = TRUE]}
            ELSE UNION {
                 SampleEvents(kind, cfg, n_events - 1, day_indices, inside, sleeping,
                     [arr   |-> FillEvent(kind, st.arr, inside, sleeping, start_idx,
                                          EventEnd(start_idx, duration, day_indices),
                                          ALen(st.arr)),
                      draws |-> st.draws + 2,
                      err   |-> FALSE,
                      trace |-> Drawn(st, <<start_idx, duration>>),
                      rec   |-> st.rec])
                 : start_idx \in valid, duration \in dur[1]..dur[2] }

\* Mutant of EventCounts: the count starts at 0 whatever the configured low end.
EventCountsFromZero(per_day) == 0..per_day[2]

\* rng.integers(per_day[0], per_day[1] + 1): the inclusive range of event counts.
EventCounts(per_day) == per_day[1]..per_day[2]

\* The "for day_indices in self._get_day_indices(tf)" loop from day k on: each
\* day draws its event count from the inclusive per-day range.
RECURSIVE SampleDays(_, _, _, _, _, _, _)
SampleDays(kind, cfg, days, k, inside, sleeping, st) ==
    IF k > Len(days) \/ st.err THEN {st}
    ELSE LET per_day == PerDayRange(cfg, kind)
         IN IF per_day[1] > per_day[2]
            THEN {[st EXCEPT !.err = TRUE]}
            ELSE UNION {
                 SampleDays(kind, cfg, days, k + 1, inside, sleeping, st1)
                 : st1 \in UNION {
                       SampleEvents(kind, cfg, n_events, days[k], inside, sleeping,
                                    [st EXCEPT !.draws = @ + 1,
                                               !.trace = Drawn(st, <<n_events>>)])
                       : n_events \in EventCounts(per_day) } }

\* Person._generate_room1
GenerateRoom1(cfg, tf, inside, sleeping, rec) ==
    SampleDays("room", cfg, GetDayIndices(tf), 1, inside, sleeping,
               [arr |-> Zeros(ALen(tf.hours)), draws |-> 0, err |-> FALSE,
                trace |-> << >>, rec |-> rec])

\* Person._generate_window_state
GenerateWindowState(cfg, tf, inside, sleeping, rec) ==
    SampleDays("window", cfg, GetDayIndices(tf), 1, inside, sleeping,
               [arr |-> Zeros(ALen(tf.hours)), draws |-> 0, err |-> FALSE,
                trace |-> << >>, rec |-> rec])

\* Person._generate_door_state
GenerateDoorState(cfg, tf, inside, sleeping, rec) ==
    SampleDays("door", cfg, GetDayIndices(tf), 1, inside, sleeping,
               [arr |-> DoorTransitions(inside), draws |-> 0, err |-> FALSE,
                trace |-> << >>, rec |-> rec])

\* The body of Person.generate after its two guards: every result the random
\* stream allows, with the number of draws it takes (and, when rec is set, the
\* values drawn).  err: rng.integers raised ValueError part-way, after `draws`
\* draws, and nothing was cached.
GenerateOutcomes(cfg, axis, rec) ==
    LET tf == extract_time_features(axis)
        inside == GenerateInside(cfg, tf)
        sleeping == GenerateSleeping(cfg, tf)
        R == GenerateRoom1(cfg, tf, inside, sleeping, rec)
        W == GenerateWindowState(cfg, tf, inside, sleeping, rec)
        D == GenerateDoorState(cfg, tf, inside, sleeping, rec)
        Ok(S) == {s \in S : ~s.err}
        Bad(S) == {s \in S : s.err}
        Failed(draws) == [err |-> TRUE, draws |-> draws, trace |-> << >>, arrays |-> None]
    IN  {[err |-> FALSE, draws |-> r.draws + w.draws + d.draws,
          trace |-> r.trace \o w.trace \o d.trace,
          arrays |-> Some([inside |-> inside, sleeping |-> sleeping, room1 |-> r.arr,
                           window |-> w.arr, door |-> d.arr])]
         : r \in Ok(R), w \in Ok(W), d \in Ok(D)}
        \cup {Failed(r.draws) : r \in Bad(R)}
        \cup {Failed(r.draws + w.draws) : r \in Ok(R), w \in Bad(W)}
        \cup {Failed(r.draws + w.draws + d.draws) : r \in Ok(R), w \in Ok(W), d \in Bad(D)}

\* ----------------------------------------------------- Person: operations
Raise(exc) == [kind |-> "Raise", exc |-> exc]
\* What a call left behind: `out` is None, Some(value) or Raise(exception).
Ret(op, who, arg, out) == [op |-> op, who |-> who, arg |-> arg, out |-> out]

\* Mutant of CacheIsSet: the cache is never consulted.
CacheIsSetNever(p) == FALSE

\* "if self._timeline_cache is not None" (generate)
CacheIsSet(p) == cache[p] # None

\* "if self.timestamps is None" (generate)
TimelineUnbound(p) == timestamps[p] = None

\* Mutant of ResetCache: the cache survives rebinding.
ResetCacheKeep(p) == cache

\* "self._timeline_cache = None" (set_timeline)
ResetCache(p) == [cache EXCEPT ![p] = None]

\* Person.set_timeline
SetTimeline(p, axis) ==
    /\ scan = None
    /\ timestamps' = [timestamps EXCEPT ![p] = Some(axis)]
    /\ cache' = ResetCache(p)
    /\ genCalls' = [genCalls EXCEPT ![p] = 0]
    /\ lastGen' = [lastGen EXCEPT ![p] = None]
    /\ ret' = Ret("set_timeline", p, Some(axis), None)
    /\ UNCHANGED <<config, rngPos, stream, aptVars>>

\* Mutant of GenerateUnbound: an unbound person is treated as bound to an empty
\* axis, and the empty result is cached.
GenerateUnboundAsEmpty(p) ==
    LET empty == Some([inside |-> Zeros(0), sleeping |-> Zeros(0), room1 |-> Zeros(0),
                       window |-> Zeros(0), door |-> Zeros(0)])
    IN /\ cache' = [cache EXCEPT ![p] = empty]
       /\ ret' = Ret("generate", p, None, empty)
       /\ genCalls' = [genCalls EXCEPT ![p] = MinOf(@ + 1, 2)]
       /\ lastGen' = [lastGen EXCEPT ![p] = empty]
       /\ UNCHANGED <<config, timestamps, rngPos, stream>>

\* generate with no timeline bound: "raise ValueError(...)", nothing else happens.
GenerateUnbound(p) ==
    /\ ret' = Ret("generate", p, None, Raise("ValueError"))
    /\ UNCHANGED personVars

\* Mutant of RngOf: every person draws from the generator of the first person,
\* as with one module-level generator.
RngOfShared(p) == "p1"

\* "self.rng = np.random.default_rng(seed)": the generator a person draws from
\* is the one constructed for it.
RngOf(p) == p

\* Person.generate
Generate(p) ==
    /\ scan = None
    /\ IF CacheIsSet(p)
       THEN /\ ret' = Ret("generate", p, None, cache[p])
            /\ genCalls' = [genCalls EXCEPT ![p] = MinOf(@ + 1, 2)]
            /\ lastGen' = [lastGen EXCEPT ![p] = cache[p]]
            /\ UNCHANGED <<config, timestamps, cache, rngPos, stream>>
       ELSE IF TimelineUnbound(p)
       THEN GenerateUnbound(p)
       ELSE /\ rngPos[RngOf(p)] < MaxDraws
            /\ \E o \in GenerateOutcomes(config[p], timestamps[p].val,
                                        stream[RngOf(p)] # None) :
                 /\ rngPos' = [rngPos EXCEPT ![RngOf(p)] = @ + o.draws]
                 /\ stream' = [stream EXCEPT ![RngOf(p)] =
                                  IF @ = None THEN None ELSE Some(@.val \o o.trace)]
                 /\ IF o.err
                    THEN /\ ret' = Ret("generate", p, None, Raise("ValueError"))
                         /\ UNCHANGED <<config, timestamps, cache, genCalls, lastGen>>
                    ELSE /\ cache' = [cache EXCEPT ![p] = o.arrays]
                         /\ ret' = Ret("generate", p, None, o.arrays)
                         /\ genCalls' = [genCalls EXCEPT ![p] = MinOf(@ + 1, 2)]
                         /\ lastGen' = [lastGen EXCEPT ![p] = o.arrays]
                         /\ UNCHANGED <<config, timestamps>>
    /\ UNCHANGED aptVars

\* Mutant of CacheTruthy: the truth value of the arrays, not of the tuple.
CacheTruthyArrays(p) == cache[p] # None /\ ALen(cache[p].val.inside) > 0

\* "... if self._timeline_cache else None": a tuple is true when it is not empty,
\* and the cached tuple always has five elements.
CacheTruthy(p) == cache[p] # None

\* Person.get_room1_state / get_window_state / get_door_state
GetRoom1State(p) == IF CacheTruthy(p) THEN Some(cache[p].val.room1) ELSE None
GetWindowState(p) == IF CacheTruthy(p) THEN Some(cache[p].val.window) ELSE None
GetDoorState(p) == IF CacheTruthy(p) THEN Some(cache[p].val.door) ELSE None

CallGetRoom1State(p) ==
    /\ scan = None
    /\ ret' = Ret("get_room1_state", p, None, GetRoom1State(p))
    /\ UNCHANGED <<personVars, aptVars>>

CallGetWindowState(p) ==
    /\ scan = None
    /\ ret' = Ret("get_window_state", p, None, GetWindowState(p))
    /\ UNCHANGED <<personVars, aptVars>>

CallGetDoorState(p) ==
    /\ scan = None
    /\ ret' = Ret("get_door_state", p, None, GetDoorState(p))
    /\ UNCHANGED <<personVars, aptVars>>

\* ------------------------------------------------------------- Apartment
\* Apartment.__init__: the fields of the new object.
ApartmentInit(axis, persons, prob_movement, min_duration, max_duration, seed) ==
    [timestamps |-> axis, persons |-> persons, prob_movement |-> prob_movement,
     min_duration |-> min_duration, max_duration |-> max_duration, seed |-> seed,
     motion_state |-> None]

\* "if self.seed is not None: np.random.seed(self.seed)": the global stream
\* restarts from the seed; without a seed it is left where it was.
SeedGlobal(seed, np) == IF seed # None THEN [seed |-> seed, pos |-> 0] ELSE np

\* An element of a numpy object array that holds the Python object None.
NoneElem == -1
ElemTruthy(x) == x # 0 /\ x # NoneElem

\* Mutant of LogicalOr: the arrays are combined with AND.
LogicalAnd(state, person_state) ==
    IF person_state = None
    THEN Some([i \in DOMAIN state |-> NoneElem])
    ELSE IF ALen(state) # ALen(person_state.val)
    THEN Raise("ValueError")
    ELSE Some([i \in DOMAIN state |->
                 IF state[i] = 1 /\ person_state.val[i] = 1 THEN 1 ELSE 0])

\* np.logical_or(state, person_state), where person_state is Some(int array) or
\* None.  Two numeric arrays give the boolean OR; with None (an object operand)
\* numpy applies Python's "a or b" element by element, so a false element becomes
\* None, and a later numeric operand then fills the None elements with its own.
\* Shapes that do not broadcast raise ValueError.
LogicalOr(state, person_state) ==
    IF person_state = None
    THEN Some([i \in DOMAIN state |-> IF ElemTruthy(state[i]) THEN state[i] ELSE NoneElem])
    ELSE LET other == person_state.val
             la == ALen(state)
             lb == ALen(other)
             A(i) == IF la = 1 THEN state[0] ELSE state[i]
             B(i) == IF lb = 1 THEN other[0] ELSE other[i]
             n == IF la = lb THEN la ELSE IF la = 1 THEN lb ELSE la
             isObject == \E i \in DOMAIN state : state[i] = NoneElem
         IN IF la # lb /\ la # 1 /\ lb # 1
            THEN Raise("ValueError")
            ELSE Some([i \in 0..(n - 1) |->
                        IF isObject
                        THEN (IF ElemTruthy(A(i)) THEN A(i) ELSE B(i))
                        ELSE (IF A(i) # 0 \/ B(i) # 0 THEN 1 ELSE 0)])

\* state.astype(int): int(None) raises TypeError.
AsTypeInt(state) ==
    IF \E i \in DOMAIN state : state[i] = NoneElem
    THEN Raise("TypeError")
    ELSE Some(state)

\* The "for person in self.persons" loop of _aggregate_person_state from the
\* k-th person on; state_func is "window" or "door".
PersonState(state_func, p) ==
    IF state_func = "window" THEN GetWindowState(p) ELSE GetDoorState(p)

RECURSIVE AggregateLoop(_, _, _, _)
AggregateLoop(persons, k, state_func, state) ==
    IF k > Len(persons) THEN Some(state)
    ELSE LET r == LogicalOr(state, PersonState(state_func, persons[k]))
         IN IF r.kind = "Raise" THEN r
            ELSE AggregateLoop(persons, k + 1, state_func, r.val)

\* Apartment._aggregate_person_state: Some(array) or Raise(exception).
AggregatePersonState(a, state_func) ==
    LET r == AggregateLoop(a.persons, 1, state_func, Zeros(ALen(a.timestamps)))
    IN IF r.kind = "Raise" THEN r ELSE AsTypeInt(r.val)

\* Apartment.get_window / get_door / get_motion
GetWindow(a) == AggregatePersonState(a, "window")
GetDoor(a) == AggregatePersonState(a, "door")
GetMotion(a) == a.motion_state

CallGetWindow ==
    /\ scan = None /\ apt # None
    /\ ret' = Ret("get_window", "apt", None, GetWindow(apt.val))
    /\ UNCHANGED <<personVars, aptVars>>

CallGetDoor ==
    /\ scan = None /\ apt # None
    /\ ret' = Ret("get_door", "apt", None, GetDoor(apt.val))
    /\ UNCHANGED <<personVars, aptVars>>

CallGetMotion ==
    /\ scan = None /\ apt # None
    /\ ret' = Ret("get_motion", "apt", None, GetMotion(apt.val))
    /\ UNCHANGED <<personVars, aptVars>>

\* np.random.rand() as a percentage: the values the trial is tried with.
RandValues == {0, 99}

\* The seeds given to np.random.seed: the Apartment's and an environmental
\* generator's.
NpSeeds == {42, 7}

\* One call on the global stream: the function, its arguments, the value returned.
NpCall(fn, args, val) == [fn |-> fn, args |-> args, val |-> val]

\* The values the call can return when it is the (offset + 1)-th call from the
\* current position: a seeded stream returns at one position, to one call with
\* the same arguments, the value it returned there before; any other read is
\* one of `values`.
NpValues(call, offset, values) ==
    IF npStream = None \/ npRandom.seed = None THEN values
    ELSE LET known == npStream.val[npRandom.seed.val]
             k == npRandom.pos + offset + 1
         IN IF k <= Len(known) /\ known[k].fn = call.fn /\ known[k].args = call.args
            THEN {known[k].val}
            ELSE values

\* The record of the seeded stream after `calls` were made from position np.pos:
\* positions read for the first time are added.
Revealed(rec, np, calls) ==
    IF rec = None \/ np.seed = None THEN rec
    ELSE LET known == rec.val[np.seed.val]
             all == SubSeq(known, 1, np.pos) \o calls
         IN Some([rec.val EXCEPT ![np.seed.val] =
                     IF Len(all) > Len(known)
                     THEN known \o SubSeq(all, Len(known) + 1, Len(all))
                     ELSE known])

\* What is recorded of an Apartment when it is constructed, and when its
\* generate() returns for the first time: the room1 arrays it read and the motion.
FirstRunEntry(a) ==
    [seed |-> a.seed, prob_movement |-> a.prob_movement, min_duration |-> a.min_duration,
     max_duration |-> a.max_duration, timestamps |-> a.timestamps, room1 |-> None,
     motion |-> None]

FirstRunDone(runs, a, motion) ==
    IF runs = << >> \/ runs[Len(runs)].motion # None THEN runs
    ELSE [runs EXCEPT ![Len(runs)] =
             [@ EXCEPT !.motion = Some(motion),
                       !.room1 = Some([k \in DOMAIN a.persons |-> GetRoom1State(a.persons[k])])]]

\* person_motion[i:end_idx] = 1
SliceAssign(arr, i, end_idx) ==
    [j \in DOMAIN arr |-> IF i <= j /\ j < end_idx THEN 1 ELSE arr[j]]

\* np.logical_or(motion, person_motion) of two integer arrays of one length
MotionOr(motion, person_motion) ==
    [j \in DOMAIN motion |-> IF motion[j] # 0 \/ person_motion[j] # 0 THEN 1 ELSE 0]

\* Mutant of CursorAfterBurst: the cursor advances by one, as after a failed trial.
CursorAfterBurstByOne(i, end_idx) == i + 1

\* "i = end_idx" after a burst
CursorAfterBurst(i, end_idx) == end_idx

\* Mutant of BurstEnd: the burst is not clipped to the axis end.
BurstEndUnclipped(i, duration, n) == i + duration

\* "end_idx = min(i + duration, len(self.timestamps))"
BurstEnd(i, duration, n) == MinOf(i + duration, n)

\* Apartment.generate is entered: _generate_motion starts with an all-zero array.
AptGenerateCall ==
    /\ scan = None /\ apt # None
    /\ npRandom.pos < MaxNpDraws
    /\ scan' = Some([pc |-> "for", k |-> 1, i |-> 0, room1_state |-> None,
                     person_motion |-> Zeros(0),
                     motion |-> Zeros(ALen(apt.val.timestamps)), bursts |-> << >>])
    /\ UNCHANGED <<personVars, ret, apt, npRandom, npStream, firstRuns>>

\* _generate_motion, the head of "for person in self.persons": either the next
\* person's scan starts (_simulate_person_motion up to "i = 0"), or the loop is
\* over and generate stores the motion array.
AptForStep ==
    /\ scan # None /\ scan.val.pc = "for"
    /\ IF scan.val.k > Len(apt.val.persons)
       THEN /\ apt' = Some([apt.val EXCEPT !.motion_state = Some(scan.val.motion)])
            /\ scan' = None
            /\ ret' = Ret("generate", "apt", None, None)
            /\ firstRuns' = FirstRunDone(firstRuns, apt.val, scan.val.motion)
       ELSE /\ scan' = Some([scan.val EXCEPT
                    !.pc = "while", !.i = 0,
                    !.room1_state = GetRoom1State(apt.val.persons[scan.val.k]),
                    !.person_motion = Zeros(ALen(apt.val.timestamps)),
                    !.bursts = << >>])
            /\ UNCHANGED <<apt, ret, firstRuns>>
    /\ UNCHANGED <<personVars, npRandom, npStream>>

\* One iteration of "while i < len(self.timestamps)" in _simulate_person_motion,
\* or its exit: the person's motion is OR-ed into the apartment's.
AptWhileStep ==
    /\ scan # None /\ scan.val.pc = "while"
    /\ Len(scan.val.bursts) < MaxBursts
    /\ LET sc == scan.val
           a == apt.val
           n == ALen(a.timestamps)
           rand(r) == NpCall("rand", << >>, r)
           randint(d) == NpCall("randint", <<a.min_duration, a.max_duration>>, d)
           Abort(exc, calls) ==
               /\ scan' = None
               /\ ret' = Ret("generate", "apt", None, Raise(exc))
               /\ npRandom' = [npRandom EXCEPT !.pos = @ + Len(calls)]
               /\ npStream' = Revealed(npStream, npRandom, calls)
           Advance(i2, pm, bs, calls) ==
               /\ scan' = Some([sc EXCEPT !.i = i2, !.person_motion = pm, !.bursts = bs])
               /\ npRandom' = [npRandom EXCEPT !.pos = @ + Len(calls)]
               /\ npStream' = Revealed(npStream, npRandom, calls)
               /\ UNCHANGED ret
       IN IF sc.i < n
          THEN IF sc.room1_state = None
               THEN Abort("TypeError", << >>)
               ELSE IF sc.i \notin DOMAIN sc.room1_state.val
               THEN Abort("IndexError", << >>)
               ELSE IF sc.room1_state.val[sc.i] > 0
               THEN \E r \in NpValues(rand(0), 0, RandValues) :
                      IF r < a.prob_movement
                      THEN IF a.min_duration > a.max_duration
                           THEN Abort("ValueError", <<rand(r)>>)
                           ELSE \E duration \in NpValues(randint(0), 1,
                                                         a.min_duration..a.max_duration) :
                                  LET end_idx == BurstEnd(sc.i, duration, n)
                                  IN Advance(CursorAfterBurst(sc.i, end_idx),
                                             SliceAssign(sc.person_motion, sc.i, end_idx),
                                             Append(sc.bursts, [start |-> sc.i, end |-> end_idx,
                                                        duration |-> duration]),
                                             <<rand(r), randint(duration)>>)
                      ELSE Advance(sc.i + 1, sc.person_motion, sc.bursts, <<rand(r)>>)
               ELSE Advance(sc.i + 1, sc.person_motion, sc.bursts, << >>)
          ELSE /\ scan' = Some([sc EXCEPT !.pc = "for", !.k = @ + 1,
                                          !.motion = MotionOr(@, sc.person_motion)])
               /\ UNCHANGED <<ret, npRandom, npStream>>
    /\ UNCHANGED <<personVars, apt, firstRuns>>

\* Apartment(...): a new Apartment object takes the place of the one held; with
\* a seed the constructor reseeds the global stream.
AptConstruct(axis, persons, prob_movement, min_duration, max_duration, seed) ==
    /\ scan = None
    /\ Len(firstRuns) < MaxApartments
    /\ apt' = Some(ApartmentInit(axis, persons, prob_movement, min_duration,
                                 max_duration, seed))
    /\ npRandom' = SeedGlobal(seed, npRandom)
    /\ firstRuns' = Append(firstRuns, FirstRunEntry(apt'.val))
    /\ ret' = Ret("Apartment", "apt", seed, None)
    /\ UNCHANGED <<personVars, scan, npStream>>

\* generate_humidity_from_timestamps(timestamps, temperature, seed): with a seed
\* it reseeds the global stream, then makes one np.random.uniform call.  The
\* array it returns is not part of this model.
EnvGenerate(seed) ==
    /\ scan = None
    /\ npRandom.pos < MaxNpDraws
    /\ LET np == SeedGlobal(seed, npRandom)
       IN /\ npRandom' = [np EXCEPT !.pos = @ + 1]
          /\ npStream' = Revealed(npStream, np, <<NpCall("uniform", << >>, 0)>>)
    /\ ret' = Ret("generate_humidity_from_timestamps", "env", seed, None)
    /\ UNCHANGED <<personVars, apt, scan, firstRuns>>

\* Person.__init__ for every person; no Apartment constructed yet.
Init ==
    /\ config = [p1 |-> AliceConfig, p2 |-> BobConfig]
    /\ timestamps = [p \in Persons |-> None]
    /\ cache = [p \in Persons |-> None]
    /\ rngPos = [p \in Persons |-> 0]
    /\ stream = [p \in Persons |-> None]
    /\ genCalls = [p \in Persons |-> 0]
    /\ lastGen = [p \in Persons |-> None]
    /\ ret = Ret("init", "none", None, None)
    /\ apt = None
    /\ scan = None
    /\ npRandom = [seed |-> None, pos |-> 0]
    /\ npStream = None
    /\ firstRuns = << >>

Next ==
    \E p \in Persons :
        \/ \E axis \in Axes : SetTimeline(p, axis)
        \/ Generate(p)
        \/ CallGetRoom1State(p)
        \/ CallGetWindowState(p)
        \/ CallGetDoorState(p)

Spec == Init /\ [][Next]_vars

\* ---------------------------------------------- the apartment specification
\* The persons lists and the (prob_movement in percent, min_duration,
\* max_duration, seed) arguments an Apartment is constructed with.
PersonLists == { << >>, <<"p1">>, <<"p2">>, <<"p1", "p2">>, <<"p2", "p1">> }
AptParams ==
    { <<0, 1, 1, None>>,
      <<30, 1, MaxMotionDuration, Some(42)>>,
      <<100, MaxMotionDuration, MaxMotionDuration, None>> }

\* create_persons(person_axis) has constructed the persons and bound each to one
\* axis (or the persons were left unbound); then the Apartment is constructed.
InitApt ==
    /\ config = [p1 |-> AliceOneEvent, p2 |-> BobConfig]
    /\ \E binding \in {None} \cup {Some(axis) : axis \in Axes} :
          timestamps = [p \in Persons |-> binding]
    /\ cache = [p \in Persons |-> None]
    /\ rngPos = [p \in Persons |-> 0]
    /\ stream = [p \in Persons |-> None]
    /\ genCalls = [p \in Persons |-> 0]
    /\ lastGen = [p \in Persons |-> None]
    /\ ret = Ret("init", "none", None, None)
    /\ \E axis \in Axes, persons \in PersonLists, prm \in AptParams :
          /\ apt = Some(ApartmentInit(axis, persons, prm[1], prm[2], prm[3], prm[4]))
          /\ npRandom = SeedGlobal(prm[4], [seed |-> None, pos |-> 0])
    /\ scan = None
    /\ npStream = None
    /\ firstRuns = << >>

NextApt ==
    \/ \E k \in DOMAIN apt.val.persons : Generate(apt.val.persons[k])
    \/ CallGetWindow
    \/ CallGetDoor
    \/ CallGetMotion
    \/ AptGenerateCall
    \/ AptForStep
    \/ AptWhileStep

SpecApt == InitApt /\ [][NextApt]_vars

\* ------------------------------------------------ the seeded specification
\* create_persons constructs each person with a seed (its draws are recorded
\* from the first on); generate_sensor_data constructs the Apartment over both.
\* The persons are bound and rebound, generate in any order, and the Apartment
\* runs its motion pass in between.
AxesSeeded == {AxisDay}

InitSeeded ==
    /\ config = [p1 |-> AliceShortEvents, p2 |-> BobConfig]
    /\ timestamps = [p \in Persons |-> None]
    /\ cache = [p \in Persons |-> None]
    /\ rngPos = [p \in Persons |-> 0]
    /\ stream = [p \in Persons |-> Some(<< >>)]
    /\ genCalls = [p \in Persons |-> 0]
    /\ lastGen = [p \in Persons |-> None]
    /\ ret = Ret("init", "none", None, None)
    /\ apt = Some(ApartmentInit(AxisDay, <<"p1", "p2">>, 100, MaxMotionDuration,
                                MaxMotionDuration, None))
    /\ npRandom = SeedGlobal(None, [seed |-> None, pos |-> 0])
    /\ scan = None
    /\ npStream = None
    /\ firstRuns = << >>

NextSeeded ==
    \/ \E p \in Persons :
          \/ \E axis \in AxesSeeded : SetTimeline(p, axis)
          \/ Generate(p)
    \/ AptGenerateCall
    \/ AptForStep
    \/ AptWhileStep

SpecSeeded == InitSeeded /\ [][NextSeeded]_vars

\* ------------------------------------------- the global-stream specification
\* generate_sensor_data with the calls in any order: the persons are bound, the
\* first generates, Apartments are constructed with one seed and the same
\* arguments, an environmental generator runs with or without its own seed, and
\* each Apartment generates.  The calls on the seeded global stream are recorded.
InitNp ==
    /\ config = [p1 |-> AliceOneEvent, p2 |-> BobConfig]
    /\ timestamps = [p \in Persons |-> Some(AxisDay)]
    /\ cache = [p \in Persons |-> None]
    /\ rngPos = [p \in Persons |-> 0]
    /\ stream = [p \in Persons |-> None]
    /\ genCalls = [p \in Persons |-> 0]
    /\ lastGen = [p \in Persons |-> None]
    /\ ret = Ret("init", "none", None, None)
    /\ apt = Some(ApartmentInit(AxisDay, <<"p1">>, 30, 1, MaxMotionDuration, Some(42)))
    /\ npRandom = SeedGlobal(Some(42), [seed |-> None, pos |-> 0])
    /\ scan = None
    /\ npStream = Some([seed \in NpSeeds |-> << >>])
    /\ firstRuns = <<FirstRunEntry(apt.val)>>

NextNp ==
    \/ Generate("p1")
    \/ AptConstruct(AxisDay, <<"p1">>, 30, 1, MaxMotionDuration, Some(42))
    \/ \E seed \in {None, Some(7)} : EnvGenerate(seed)
    \/ AptGenerateCall
    \/ AptForStep
    \/ AptWhileStep
    \/ CallGetMotion

SpecNp == InitNp /\ [][NextNp]_vars

\* ------------------------------------------- the configuration specification
\* Person.__init__ stores whatever arguments it is given: sleep intervals that
\* wrap midnight, do not wrap, or are empty (start = end), and per-day and
\* duration ranges with low > high.  The person is then bound and generates.
AxisNight == Arr(<< TS(4, 0), TS(4, 7), TS(4, 22) >>)
AxesCfg == Axes \cup {AxisNight}

SleepChoices == { <<22, 6>>, <<1, 7>>, <<6, 6>>, <<0, 0>>, <<7, 1>> }

ConfigChoices ==
    {[BobConfig EXCEPT !.sleep_hours = sh] : sh \in SleepChoices}
    \cup {[BobConfig EXCEPT !.room_per_day = <<2, 1>>],
          [BobConfig EXCEPT !.room_duration = <<3, 1>>],
          [BobConfig EXCEPT !.window_open_per_day = <<1, 0>>],
          [BobConfig EXCEPT !.window_open_duration = <<2, 1>>],
          [BobConfig EXCEPT !.door_open_per_day = <<2, 1>>],
          [BobConfig EXCEPT !.door_open_duration = <<2, 1>>],
          [AliceOneEvent EXCEPT !.door_open_duration = <<MaxDuration, 1>>],
          AliceLongEvents}

InitCfg ==
    /\ \E cfg \in ConfigChoices : config = [p1 |-> cfg, p2 |-> BobConfig]
    /\ timestamps = [p \in Persons |-> None]
    /\ cache = [p \in Persons |-> None]
    /\ rngPos = [p \in Persons |-> 0]
    /\ stream = [p \in Persons |-> None]
    /\ genCalls = [p \in Persons |-> 0]
    /\ lastGen = [p \in Persons |-> None]
    /\ ret = Ret("init", "none", None, None)
    /\ apt = None
    /\ scan = None
    /\ npRandom = [seed |-> None, pos |-> 0]
    /\ npStream = None
    /\ firstRuns = << >>

NextCfg ==
    \/ \E axis \in AxesCfg : SetTimeline("p1", axis)
    \/ Generate("p1")
    \/ CallGetRoom1State("p1")

SpecCfg == InitCfg /\ [][NextCfg]_vars

\* ---------------------------------------------- the motion-scan specification
\* Apartment.__init__ stores prob_movement, min_duration and max_duration as
\* given; a duration range may start at 0.  One person is bound, generates, and
\* the Apartment over it runs its motion pass.
ScanParams ==
    { <<100, 0, 1, None>>,
      <<30, 0, 0, Some(42)>>,
      <<100, 1, MaxMotionDuration, None>> }

InitScan ==
    /\ config = [p1 |-> AliceOneEvent, p2 |-> BobConfig]
    /\ timestamps = [p \in Persons |-> Some(AxisDay)]
    /\ cache = [p \in Persons |-> None]
    /\ rngPos = [p \in Persons |-> 0]
    /\ stream = [p \in Persons |-> None]
    /\ genCalls = [p \in Persons |-> 0]
    /\ lastGen = [p \in Persons |-> None]
    /\ ret = Ret("init", "none", None, None)
    /\ \E prm \in ScanParams :
          /\ apt = Some(ApartmentInit(AxisDay, <<"p1">>, prm[1], prm[2], prm[3], prm[4]))
          /\ npRandom = SeedGlobal(prm[4], [seed |-> None, pos |-> 0])
    /\ scan = None
    /\ npStream = None
    /\ firstRuns = << >>

NextScan ==
    \/ Generate("p1")
    \/ AptGenerateCall
    \/ AptForStep
    \/ AptWhileStep
    \/ CallGetMotion

SpecScan == InitScan /\ [][NextScan]_vars

\* ------------------------------------------------------ claims: the Person
Generated(p) == genCalls[p] > 0
CachedArrays(p) == cache[p].val

\* C1: after generate(), every index where window = 1 has inside = 1 and
\* sleeping = 0: a window is never flagged open while the person is outside or asleep.
C1_WindowOnlyInsideAwake ==
    \A p \in Persons :
        cache[p] # None =>
            \A i \in DOMAIN CachedArrays(p).window :
                CachedArrays(p).window[i] = 1 =>
                    CachedArrays(p).inside[i] = 1 /\ CachedArrays(p).sleeping[i] = 0

\* C1 witness: a generated window array is open at an index whose successor in
\* the same array is outside or asleep (the fill could have run on, and stopped).
C1_Witness ==
    \E p \in Persons :
        /\ cache[p] # None
        /\ \E i \in DOMAIN CachedArrays(p).window :
              /\ CachedArrays(p).window[i] = 1
              /\ (i + 1) \in DOMAIN CachedArrays(p).window
              /\ CachedArrays(p).window[i + 1] = 0
              /\ (CachedArrays(p).inside[i + 1] = 0 \/ CachedArrays(p).sleeping[i + 1] = 1)

\* C2: after generate(), door = 1 at every index i > 0 where inside differs from
\* the index before, whatever the sleep state and whatever random door events fell.
C2_DoorMarksEveryTransition ==
    \A p \in Persons :
        cache[p] # None =>
            \A i \in DOMAIN CachedArrays(p).inside :
                (i > 0 /\ CachedArrays(p).inside[i] # CachedArrays(p).inside[i - 1])
                    => CachedArrays(p).door[i] = 1

\* C2 witness: a generated timeline with a transition at an index where the
\* person is asleep, marked in the door array.
C2_Witness ==
    \E p \in Persons :
        /\ cache[p] # None
        /\ \E i \in DOMAIN CachedArrays(p).inside :
              /\ i > 0
              /\ CachedArrays(p).inside[i] # CachedArrays(p).inside[i - 1]
              /\ CachedArrays(p).sleeping[i] = 1
              /\ CachedArrays(p).door[i] = 1

\* C3: a generate() call made in the Generated state returns what the previous
\* generate() returned (hence what the first returned), leaves the cache as it
\* was and takes no draw from the person's random stream.
C3_GenerateIdempotent ==
    [][\A p \in Persons :
          (Generated(p) /\ ret'.op = "generate" /\ ret'.who = p)
              => /\ ret'.out = lastGen[p]
                 /\ cache'[p] = cache[p]
                 /\ rngPos'[p] = rngPos[p]]_vars

\* C3 witness: generate() has returned twice since the last set_timeline, after
\* at least one draw.
C3_Witness ==
    \E p \in Persons : genCalls[p] = 2 /\ rngPos[p] > 0 /\ ret.op = "generate" /\ ret.who = p

\* C4: set_timeline(axis), from any state, leaves the person bound to axis with
\* the cache cleared and the three accessors returning None; and the first
\* generate() after it returns (and caches) five arrays computed on that axis.
C4_SetTimelineRebinds ==
    [][\A p \in Persons :
          /\ (ret'.op = "set_timeline" /\ ret'.who = p)
                => /\ timestamps'[p] = ret'.arg
                   /\ cache'[p] = None
                   /\ GetRoom1State(p)' = None
                   /\ GetWindowState(p)' = None
                   /\ GetDoorState(p)' = None
          /\ (~Generated(p) /\ timestamps[p] # None
                /\ ret'.op = "generate" /\ ret'.who = p /\ ret'.out.kind = "Some")
                => LET axis == timestamps[p].val
                       tf == extract_time_features(axis)
                       out == ret'.out.val
                   IN /\ cache'[p] = ret'.out
                      /\ out.inside = GenerateInside(config[p], tf)
                      /\ out.sleeping = GenerateSleeping(config[p], tf)
                      /\ DOMAIN out.room1 = DOMAIN axis
                      /\ DOMAIN out.window = DOMAIN axis
                      /\ DOMAIN out.door = DOMAIN axis
                      /\ rngPos'[p] >= rngPos[p] + 3 * Len(GetDayIndices(tf))]_vars

\* C4 witness: set_timeline has just been called on a person that had generated
\* before (its stream has advanced), and the cache is empty.
C4_Witness ==
    /\ ret.op = "set_timeline"
    /\ rngPos[ret.who] > 0
    /\ cache[ret.who] = None
    /\ timestamps[ret.who] = ret.arg

\* C5: generate() on a person with no timeline bound raises, and changes nothing:
\* the cache stays empty, the timeline unbound, the stream where it was.
C5_GenerateUnboundFails ==
    [][\A p \in Persons :
          (timestamps[p] = None /\ ret'.op = "generate" /\ ret'.who = p)
              => /\ ret'.out = Raise("ValueError")
                 /\ cache'[p] = None
                 /\ timestamps'[p] = None
                 /\ rngPos'[p] = rngPos[p]
                 /\ UNCHANGED personVars]_vars

\* C5 witness: generate() has just raised on an unbound person.
C5_Witness ==
    /\ ret.op = "generate"
    /\ ret.out.kind = "Raise"
    /\ timestamps[ret.who] = None
    /\ cache[ret.who] = None

\* C6: the three accessors return None exactly when the person is not in the
\* Generated state, and otherwise the room1, window and door arrays of the last
\* generate() result.
C6_AccessorsFollowState ==
    \A p \in Persons :
        IF Generated(p)
        THEN /\ GetRoom1State(p) = Some(lastGen[p].val.room1)
             /\ GetWindowState(p) = Some(lastGen[p].val.window)
             /\ GetDoorState(p) = Some(lastGen[p].val.door)
        ELSE /\ GetRoom1State(p) = None
             /\ GetWindowState(p) = None
             /\ GetDoorState(p) = None

\* C6 witness: one person is generated on the empty axis and an accessor has
\* returned its (empty) array, while the other person is not generated.
C6_Witness ==
    /\ ret.op = "get_window_state"
    /\ Generated(ret.who)
    /\ ret.out = Some(Zeros(0))
    /\ \E q \in Persons : ~Generated(q)

\* What a person's results depend on, besides its configuration.
LocalState(p) == <<timestamps[p], cache[p], rngPos[p], stream[p]>>

\* C11: a person's arrays depend only on its own configuration, axis and random
\* stream, whatever the other person and the Apartment do in between: a step
\* changes a person's timeline, cache, stream position or drawn values only if
\* it is that person's own set_timeline or generate; a computing generate() reads
\* the person's own stream exactly from where the person's last draw left it;
\* and the arrays it returns are the only ones the values drawn there allow.
C11_PersonsIndependent ==
    [][\A p \in Persons :
          /\ LocalState(p)' # LocalState(p)
                => /\ ret'.who = p /\ ret'.op \in {"set_timeline", "generate"}
                   /\ UNCHANGED aptVars
                   /\ \A q \in Persons \ {p} : LocalState(q)' = LocalState(q)
          /\ (cache[p] = None /\ cache'[p] # None /\ stream[p] # None)
                => LET t == SubSeq(stream'[p].val, rngPos[p] + 1, Len(stream'[p].val))
                   IN /\ Len(stream[p].val) = rngPos[p]
                      /\ Len(stream'[p].val) = rngPos'[p]
                      /\ \A o \in GenerateOutcomes(config[p], timestamps[p].val, TRUE) :
                            (~o.err /\ o.trace = t) => o.arrays = cache'[p]]_vars

\* C11 witness: both persons have generated, the second caller after the first
\* had drawn, the Apartment has run its motion pass, and the first person has
\* since been rebound and has generated again.
C11_Witness ==
    /\ apt # None /\ apt.val.motion_state # None
    /\ \A p \in Persons : cache[p] # None /\ stream[p] # None /\ rngPos[p] > 0
    /\ \E p \in Persons :
          /\ ret.op = "generate" /\ ret.who = p
          /\ genCalls[p] = 1
          /\ Len(stream[p].val) > 9

\* The days of a generated person's axis, each as its set of indices.
DaysOf(p) == GetDayIndices(extract_time_features(timestamps[p].val))

\* Index i of the arrays a is inside and awake.
IsValid(a, i) == a.inside[i] = 1 /\ a.sleeping[i] = 0
NoValidIndex(a, day) == \A i \in day : ~IsValid(a, i)
ValidDayCount(a, days) == Cardinality({k \in DOMAIN days : ~NoValidIndex(a, days[k])})

\* generate() computes in this step (it neither returns the cache nor raises).
Computes(p) == cache[p] = None /\ cache'[p] # None

\* C15: generate() on a bound person completes (no error) also when a day has no
\* index that is inside and awake; the events drawn for such a day are skipped:
\* the day costs one draw (the count) per kind and no start or duration draw,
\* room1 and window stay 0 in it and door is 1 only at inside transitions.
C15_NoValidDaySkipped ==
    [][\A p \in Persons :
          /\ (timestamps[p] # None /\ ret'.op = "generate" /\ ret'.who = p)
                => ret'.out.kind = "Some"
          /\ Computes(p) =>
                LET a == cache'[p].val
                    days == DaysOf(p)
                    cfg == config[p]
                    drawn == rngPos'[p] - rngPos[p]
                IN /\ \A k \in DOMAIN days :
                         NoValidIndex(a, days[k]) =>
                             \A i \in days[k] :
                                 /\ a.room1[i] = 0
                                 /\ a.window[i] = 0
                                 /\ a.door[i] = 1 <=> (i > 0 /\ a.inside[i] # a.inside[i - 1])
                   /\ drawn >= 3 * Len(days)
                   /\ drawn <= 3 * Len(days)
                               + 2 * ValidDayCount(a, days)
                                   * (cfg.room_per_day[2] + cfg.window_open_per_day[2]
                                      + cfg.door_open_per_day[2])]_vars

\* C15 witness: generate() has returned for an axis of two days, one with no
\* valid index and one with a valid index where a room event was placed.
C15_Witness ==
    /\ ret.op = "generate" /\ ret.out.kind = "Some"
    /\ cache[ret.who] # None
    /\ LET a == CachedArrays(ret.who)
           days == DaysOf(ret.who)
       IN /\ \E k \in DOMAIN days : NoValidIndex(a, days[k])
          /\ \E k \in DOMAIN days : \E i \in days[k] : a.room1[i] = 1

\* C16: after generate(), every index where room1 = 1 has inside = 1 and
\* sleeping = 0, whatever was drawn.
C16_Room1OnlyInsideAwake ==
    \A p \in Persons :
        cache[p] # None =>
            \A i \in DOMAIN CachedArrays(p).room1 :
                CachedArrays(p).room1[i] = 1 => IsValid(CachedArrays(p), i)

\* C16 witness: a generated room1 array is set at an index whose successor, in
\* the same day, is outside or asleep and left unset.
C16_Witness ==
    \E p \in Persons :
        /\ cache[p] # None
        /\ \E i \in DOMAIN CachedArrays(p).room1 :
              /\ CachedArrays(p).room1[i] = 1
              /\ (i + 1) \in DOMAIN CachedArrays(p).room1
              /\ timestamps[p].val[i + 1].date = timestamps[p].val[i].date
              /\ ~IsValid(CachedArrays(p), i + 1)
              /\ CachedArrays(p).room1[i + 1] = 0

\* C17 (the claim as stated): after generate(), every index where door = 1 that
\* is not an inside-transition index has inside = 1 and sleeping = 0.
C17_DoorEventsOnlyInsideAwake ==
    \A p \in Persons :
        cache[p] # None =>
            LET a == CachedArrays(p)
            IN \A i \in DOMAIN a.door :
                  (a.door[i] = 1 /\ (i = 0 \/ a.inside[i] = a.inside[i - 1]))
                      => IsValid(a, i)

\* The maximal runs of 1s of arr inside one day, counted by their first indices.
RunsInDay(arr, day) ==
    Cardinality({i \in day : arr[i] = 1 /\ ((i - 1) \notin day \/ arr[i - 1] = 0)})

\* C18: the number of events drawn per day and kind lies in the configured
\* inclusive range: the draws of a computing generate() are one count per day
\* and kind plus a start and a duration for between low and high events per kind
\* on every day with a valid index; the window array has at most high runs of
\* 1s in a day; and on a day with a valid index at least low window events are
\* applied, so with low >= 1 the window is open somewhere in that day.
C18_EventCountInRange ==
    [][\A p \in Persons :
          Computes(p) =>
              LET a == cache'[p].val
                  days == DaysOf(p)
                  cfg == config[p]
                  events == rngPos'[p] - rngPos[p] - 3 * Len(days)
                  lows == cfg.room_per_day[1] + cfg.window_open_per_day[1]
                          + cfg.door_open_per_day[1]
                  highs == cfg.room_per_day[2] + cfg.window_open_per_day[2]
                           + cfg.door_open_per_day[2]
              IN /\ events >= 2 * ValidDayCount(a, days) * lows
                 /\ events <= 2 * ValidDayCount(a, days) * highs
                 /\ \A k \in DOMAIN days :
                       /\ RunsInDay(a.window, days[k]) <= cfg.window_open_per_day[2]
                       /\ (~NoValidIndex(a, days[k]) /\ cfg.window_open_per_day[1] >= 1)
                             => \E i \in days[k] : a.window[i] = 1]_vars

\* C18 witness: a generated window array has as many runs of 1s in one day as
\* the high end of the per-day range allows, and that is more than one.
C18_Witness ==
    \E p \in Persons :
        /\ cache[p] # None
        /\ ret.op = "generate" /\ ret.who = p
        /\ \E k \in DOMAIN DaysOf(p) :
              /\ RunsInDay(CachedArrays(p).window, DaysOf(p)[k]) = 2
              /\ config[p].window_open_per_day[2] >= 2

\* The end of the event window of an event drawn at start s with duration d in day.
WindowEnd(s, d, day) == MinOf(s + d, MaxOfSet(day) + 1)

\* C20: for a person configured with exactly one event per day, the one sampled
\* event window [s, e) of a day, e = min(s + duration, day end), explains the
\* day's arrays: room1 is set at exactly the indices of [s, e) that are inside
\* and awake, also after an invalid index, while window is set at exactly the
\* prefix of [s, e) before its first invalid index, so the window array never
\* has 1s on both sides of an invalid index of the day.
C20_FillPolicies ==
    \A p \in Persons :
        cache[p] # None =>
            LET a == CachedArrays(p)
                days == DaysOf(p)
                cfg == config[p]
            IN \A k \in DOMAIN days :
                  LET day == days[k]
                      starts == {i \in day : IsValid(a, i)}
                  IN /\ (cfg.room_per_day = <<1, 1>> /\ starts # {}) =>
                          \E s \in starts :
                            \E d \in cfg.room_duration[1]..cfg.room_duration[2] :
                              \A i \in day :
                                a.room1[i] = 1 <=>
                                    (s <= i /\ i < WindowEnd(s, d, day) /\ IsValid(a, i))
                     /\ (cfg.window_open_per_day = <<1, 1>> /\ starts # {}) =>
                          /\ \E s \in starts :
                               \E d \in cfg.window_open_duration[1]..cfg.window_open_duration[2] :
                                 \A i \in day :
                                   a.window[i] = 1 <=>
                                       (/\ s <= i /\ i < WindowEnd(s, d, day)
                                        /\ \A j \in s..i : IsValid(a, j))
                          /\ \A i, j \in day :
                               (i < j /\ a.window[i] = 1 /\ a.window[j] = 1)
                                   => \A m \in i..j : IsValid(a, m)

\* C20 witness: a person with one room event and one window event per day has
\* room1 set on both sides of an invalid index of one day, and the window set
\* right before that invalid index and not after it.
C20_Witness ==
    \E p \in Persons :
        /\ cache[p] # None
        /\ config[p].room_per_day = <<1, 1>>
        /\ config[p].window_open_per_day = <<1, 1>>
        /\ LET a == CachedArrays(p)
               days == DaysOf(p)
           IN \E k \in DOMAIN days : \E i, m, j \in days[k] :
                 /\ i < m /\ m < j /\ ~IsValid(a, m)
                 /\ a.room1[i] = 1 /\ a.room1[j] = 1
                 /\ m = i + 1 /\ a.window[i] = 1 /\ a.window[j] = 0

\* The sleeping value the claim gives for hour h under sleep_hours = sh.
SleepingAsClaimed(sh, h) ==
    IF sh[1] > sh[2] THEN (IF h >= sh[1] \/ h < sh[2] THEN 1 ELSE 0)
    ELSE (IF sh[1] <= h /\ h < sh[2] THEN 1 ELSE 0)

\* C12 (the claim as stated): for every sleep_hours pair (start, end) and every
\* hour h of the axis, a generated sleeping array is 1 exactly where, for
\* start > end, h >= start or h < end, and for start <= end (start = end
\* included), start <= h < end.
C12_SleepingAsClaimed ==
    \A p \in Persons :
        cache[p] # None =>
            \A i \in DOMAIN CachedArrays(p).sleeping :
                CachedArrays(p).sleeping[i] =
                    SleepingAsClaimed(config[p].sleep_hours, timestamps[p].val[i].hour)

Degenerate(cfg) ==
    \E r \in {cfg.room_per_day, cfg.room_duration, cfg.window_open_per_day,
               cfg.window_open_duration, cfg.door_open_per_day,
               cfg.door_open_duration} : r[1] > r[2]

\* C14 (the claim as stated): for a person whose configuration has a range with
\* low > high, generate() never completes successfully and returns arrays.
C14_DegenerateRangeRejected ==
    \A p \in Persons :
        Degenerate(config[p]) =>
            ~(ret.op = "generate" /\ ret.who = p /\ ret.out.kind = "Some")

\* --------------------------------------------------- claims: the Apartment
\* Every person of the list is generated on the apartment's own axis.
AllGeneratedOnAxis(a) ==
    \A k \in DOMAIN a.persons :
        /\ timestamps[a.persons[k]] = Some(a.timestamps)
        /\ cache[a.persons[k]] # None

\* The element-wise OR of the persons' arrays of one kind.
OrOfPersons(a, state_func) ==
    [i \in DOMAIN a.timestamps |->
        IF \E k \in DOMAIN a.persons : PersonState(state_func, a.persons[k]).val[i] = 1
        THEN 1 ELSE 0]

SameMembers(l1, l2) ==
    /\ {l1[k] : k \in DOMAIN l1} = {l2[k] : k \in DOMAIN l2}
    /\ Len(l1) = Len(l2)

\* C7: with every person generated on the apartment's axis, get_window() and
\* get_door() are the element-wise OR of the persons' arrays, whatever the order
\* of the persons list, and all zero (of axis length) for no persons.
C7_AggregateIsOr ==
    (apt # None /\ AllGeneratedOnAxis(apt.val)) =>
        LET a == apt.val
        IN /\ GetWindow(a) = Some(OrOfPersons(a, "window"))
           /\ GetDoor(a) = Some(OrOfPersons(a, "door"))
           /\ \A other \in PersonLists :
                 SameMembers(other, a.persons) =>
                    /\ GetWindow([a EXCEPT !.persons = other]) = GetWindow(a)
                    /\ GetDoor([a EXCEPT !.persons = other]) = GetDoor(a)
           /\ a.persons = << >> =>
                 /\ GetWindow(a) = Some(Zeros(ALen(a.timestamps)))
                 /\ GetDoor(a) = Some(Zeros(ALen(a.timestamps)))

\* C7 witness: get_door() has returned for two generated persons whose door
\* arrays differ at an index, and the result is 1 there.
C7_Witness ==
    /\ apt # None /\ AllGeneratedOnAxis(apt.val)
    /\ Len(apt.val.persons) = 2
    /\ ret.op = "get_door" /\ ret.out = GetDoor(apt.val)
    /\ ret.out.kind = "Some"
    /\ \E i \in DOMAIN apt.val.timestamps :
          /\ cache[apt.val.persons[1]].val.door[i] # cache[apt.val.persons[2]].val.door[i]
          /\ ret.out.val[i] = 1

\* C13 (the claim as stated): each of a person's five cached arrays is as long
\* as the person's bound axis, and every array get_window(), get_door() and
\* get_motion() return is as long as the apartment's axis and as the timeline
\* of every bound person of the apartment.
C13_ArraysAligned ==
    /\ \A p \in Persons :
          cache[p] # None =>
              \A f \in {"inside", "sleeping", "room1", "window", "door"} :
                  ALen(CachedArrays(p)[f]) = ALen(timestamps[p].val)
    /\ apt # None =>
          LET a == apt.val
              Aligned(arr) ==
                  /\ ALen(arr) = ALen(a.timestamps)
                  /\ \A k \in DOMAIN a.persons :
                        timestamps[a.persons[k]] # None =>
                            ALen(arr) = ALen(timestamps[a.persons[k]].val)
          IN /\ (ret.op \in {"get_window", "get_door"} /\ ret.out.kind = "Some")
                    => Aligned(ret.out.val)
             /\ GetMotion(a) # None => Aligned(GetMotion(a).val)

\* Two recorded first runs had the same inputs: seed, parameters, axis and the
\* room1 arrays of the persons.
SameInputs(r1, r2) ==
    /\ r1.seed # None /\ r1.seed = r2.seed
    /\ r1.prob_movement = r2.prob_movement
    /\ r1.min_duration = r2.min_duration /\ r1.max_duration = r2.max_duration
    /\ r1.timestamps = r2.timestamps
    /\ r1.room1 = r2.room1

\* C19 (the claim as stated): two Apartments constructed with the same seed, the
\* same parameters and persons with identical room1 arrays get identical motion
\* arrays from generate(), whatever random-consuming operations are interleaved
\* between construction and generate().
C19_MotionDeterministic ==
    \A i, j \in DOMAIN firstRuns :
        (firstRuns[i].motion # None /\ firstRuns[j].motion # None
            /\ SameInputs(firstRuns[i], firstRuns[j]))
              => firstRuns[i].motion = firstRuns[j].motion

\* C8 (the claim as stated): get_window(), get_door() and get_motion() called
\* before the relevant generation step return an absent or empty result and do
\* not raise.
C8_AccessorsNeverRaise ==
    /\ (/\ apt # None
        /\ ret.op \in {"get_window", "get_door"}
        /\ \E k \in DOMAIN apt.val.persons :
              /\ timestamps[apt.val.persons[k]] = Some(apt.val.timestamps)
              /\ cache[apt.val.persons[k]] = None)
          => ret.out.kind # "Raise"
    /\ (/\ apt # None
        /\ ret.op = "get_motion"
        /\ apt.val.motion_state = None)
          => ret.out = None

\* C9: in one person's motion scan every burst starts at an index where room1 = 1,
\* marks a contiguous span of at most max_duration indices, clipped to the axis
\* end, and starts at or after the end of the burst before it; nothing else is marked.
C9_BurstsWellFormed ==
    (scan # None /\ scan.val.room1_state # None) =>
        LET sc == scan.val
            a == apt.val
            n == ALen(a.timestamps)
            bs == sc.bursts
        IN /\ \A b \in DOMAIN bs :
                 /\ bs[b].start \in DOMAIN sc.room1_state.val
                 /\ sc.room1_state.val[bs[b].start] = 1
                 /\ bs[b].start < bs[b].end
                 /\ bs[b].end - bs[b].start <= a.max_duration
                 /\ bs[b].end = MinOf(bs[b].start + bs[b].duration, n)
                 /\ \A j \in bs[b].start..(bs[b].end - 1) : sc.person_motion[j] = 1
                 /\ b > 1 => bs[b].start >= bs[b - 1].end
                 /\ bs[b].end <= sc.i
           /\ \A j \in DOMAIN sc.person_motion :
                 sc.person_motion[j] = 1 =>
                    \E b \in DOMAIN bs : bs[b].start <= j /\ j < bs[b].end

\* C9 witness: a finished scan with two bursts, the first spanning an index
\* where room1 = 0 and the second clipped by the axis end.
C9_Witness ==
    /\ scan # None /\ scan.val.room1_state # None
    /\ scan.val.pc = "for"
    /\ Len(scan.val.bursts) = 2
    /\ scan.val.bursts[1].end - scan.val.bursts[1].start = 2
    /\ scan.val.room1_state.val[scan.val.bursts[1].start + 1] = 0
    /\ scan.val.bursts[2].end = ALen(apt.val.timestamps)
    /\ scan.val.bursts[2].end - scan.val.bursts[2].start < scan.val.bursts[2].duration

\* C10 (the claim as stated): a second generate() on the same Apartment leaves
\* get_motion() equal to what it was after the first call.
C10_ApartmentGenerateIdempotent ==
    [][(apt # None /\ apt.val.motion_state # None)
          => GetMotion(apt.val)' = GetMotion(apt.val)]_vars

\* Index i of day can have been set by an event of that day: the per-day range
\* allows an event, and some inside-and-awake index s of the day has
\* s <= i < s + duration for the longest duration of the range.
SetByEventOfDay(a, day, i, per_day, duration) ==
    /\ per_day[2] >= 1
    /\ \E s \in day : IsValid(a, s) /\ s <= i /\ i < s + duration[2]

FirstGenerated(p) ==
    {o.arrays : o \in {o \in GenerateOutcomes(config[p], timestamps[p].val, TRUE) :
                          /\ ~o.err
                          /\ Len(o.trace) <= Len(stream[p].val)
                          /\ SubSeq(stream[p].val, 1, Len(o.trace)) = o.trace}}

\* C23 (the claim as stated): where a person is only ever bound to one axis A,
\* whatever it holds after set_timeline(A); generate(); set_timeline(A);
\* generate() are the five arrays of its first generate() on A.
C23_RegenerationReproducible ==
    \A p \in Persons :
        (cache[p] # None /\ stream[p] # None /\ AxesSeeded = {timestamps[p].val}) =>
            \A first \in FirstGenerated(p) : cache[p] = first

\* C21 (the claim as stated): every iteration of one person's motion scan moves
\* the cursor strictly forward and never past the axis end, whatever duration
\* range the Apartment was constructed with and whatever the stream returns, so
\* a scan of an axis of length N is over after at most N iterations.
C21_CursorStrictlyIncreases ==
    [][(scan # None /\ scan.val.pc = "while" /\ scan' # None /\ scan'.val.pc = "while")
          => /\ scan'.val.i > scan.val.i
             /\ scan'.val.i <= ALen(apt.val.timestamps)
             /\ Len(scan'.val.bursts) <= ALen(apt.val.timestamps)]_vars

====
